---- MODULE Spec2Model ----
(***************************************************************************)
(* kdash: the program's entry point (src/main.rs).  main validates the     *)
(* command line, creates three bounded channels and the shared App behind  *)
(* a mutex, spawns the network, stream and cmd threads and runs the UI     *)
(* loop on the main thread.  The bodies of App, handlers, Network,         *)
(* NetworkStream, CmdRunner and Events are not part of main.rs; where the  *)
(* model needs them they follow the design document and are marked so in   *)
(* the comments.                                                           *)
(***************************************************************************)
EXTENDS Integers, Sequences, FiniteSets, TLC

VARIABLES
  cli,             \* Cli: [tick_rate, poll_rate]
  mainPc,          \* position of main()
  queue,           \* the three mpsc channels, by consumer; empty domain before creation
  rxAlive,         \* whether each channel's Receiver still exists
  app,             \* the App behind Arc<Mutex<..>>; empty domain before creation
  lockHolder,      \* owner of the tokio Mutex guard, or "none"
  workerPc,        \* position of each worker thread
  cur,             \* the request a worker has dequeued and is handling (0: none)
  clients,         \* the workers that hold a kube client
  uiPc,            \* position of start_ui
  uiPending,       \* the sends the running handler still has to make
  is_first_render, \* start_ui's local flag
  rawMode,         \* terminal: raw mode enabled
  altScreen,       \* terminal: alternate screen entered
  dispatched,      \* history: requests handed to send(), per channel
  started,         \* history: request ids in the order each worker dequeued them
  finished,        \* history: request ids in the order each worker completed them
  errWrites,       \* history: startup errors written by each worker
  uiSuspends,      \* history: times the UI loop was suspended in send()
  event,           \* history: the event Events::next returned last ("none" before)
  shutdownCalled,  \* history: start_ui reached shutdown(terminal)
  streamReq,       \* the requests made on the stream channel, by id
  streams,         \* the subscriptions the stream worker has open, by the id of their start
  reported,        \* history: what backend().size() returned in this iteration
  calls,           \* history: the handlers called in this iteration, with their event
  firstEvent,      \* history: the variant of the first event received ("none" before)
  firstRenderCalls \* history: calls of on_tick with is_first_render = true

vars == <<cli, mainPc, queue, rxAlive, app, lockHolder, workerPc, cur,
          clients, uiPc, uiPending, is_first_render, rawMode, altScreen,
          dispatched, started, finished, errWrites, uiSuspends,
          event, shutdownCalled, streamReq, streams, reported, calls,
          firstEvent, firstRenderCalls>>

termVars == <<rawMode, altScreen>>
chanVars == <<queue, rxAlive, dispatched, streamReq>>
workerVars == <<workerPc, cur, clients, started, finished, errWrites, streams>>
loopVars == <<reported, calls, firstEvent, firstRenderCalls>>
uiVars == <<uiPc, uiPending, is_first_render, uiSuspends, event, shutdownCalled,
            loopVars>>

(***************************************************************************)
(* Bounds of the model and constants of the program.                       *)
(***************************************************************************)
\* ticks the UI loop receives in the default specification
MaxTicks == 2
\* requests the key handlers enqueue on the stream and the cmd channel
MaxKeyRequests == 1
\* ticks the UI loop receives in the load specification
MaxLoadTicks == 502
\* requests a worker dequeues in the default specification
MaxHandled == 2
\* requests a worker dequeues in the load specification
MaxLoadHandled == 1
\* ticks the UI loop receives in the poll specification
MaxPollTicks == 41
\* requests the key handlers enqueue on each channel in the key specification
MaxKeySpecRequests == 2
\* mpsc::channel(500)
QueueCapacity == 500
\* cli.tick_rate >= 1000 panics
TickRateLimit == 1000

Workers == {"network", "stream", "cmd"}

TickRates == {0, 250, 1000}
PollRates == {0, 250, 500, 1200}
CliInputs == [tick_rate : TickRates, poll_rate : PollRates]

NoChannels == [w \in {} |-> <<>>]
NoApp == [f \in {} |-> 0]

\* tick 250 ms with polls every 250, 500 and 5000 ms: ratios 1, 2 and 20
PollCliInputs == {[tick_rate |-> 250, poll_rate |-> p] : p \in {250, 500, 5000}}

\* the events Events::next can return, by what the loop does with them; the
\* default specification delivers these, the others deliver the sets below
AllEvents == {"Tick", "CtrlC", "KeyQuit", "KeyStream", "KeyCmd", "Mouse"}
LoadEvents == {"Tick"}
\* the keys that make requests to the stream and the cmd worker
KeyEvents == {"KeyStream", "KeyStreamStop", "KeyCmd"}
\* the events of a session in which the terminal is resized
SizeEvents == {"Tick", "KeyRefresh", "Mouse"}

\* Rect::default(), the size of an App that has not seen the terminal yet
NoSize == "0x0"
\* what terminal.backend().size() returns: a size, or an error
OneSize == {"80x24"}
SizeResults == {"80x24", "120x40", "err"}

(***************************************************************************)
(* main                                                                    *)
(***************************************************************************)
\* the comparison off by one: a tick rate of exactly 1000 passes
TickRateAboveLimit(c) == c.tick_rate > TickRateLimit

\* if cli.tick_rate >= 1000 { panic!(..) }
TickRateTooHigh(c) == c.tick_rate >= TickRateLimit

\* if (cli.poll_rate % cli.tick_rate) > 0 { panic!(..) }; u64 % 0 panics too
PollNotMultiple(c) ==
  IF c.tick_rate = 0 THEN TRUE ELSE (c.poll_rate % c.tick_rate) > 0

ValidationPanics(c) == TickRateTooHigh(c) \/ PollNotMultiple(c)

\* the poll rate handed over as it is, not divided by the tick rate
PollRatioUndivided(c) == c.poll_rate

\* cli.poll_rate / cli.tick_rate, the last argument of App::new
PollRatio(c) == c.poll_rate \div c.tick_rate

\* App::new(sync_io_tx, sync_io_stream_tx, sync_io_cmd_tx, enhanced_graphics, ratio)
NewApp(c) ==
  [ poll_ratio  |-> PollRatio(c),
    tick_count  |-> 0,
    should_quit |-> FALSE,
    error       |-> "none",
    data        |-> "empty",
    logs        |-> "empty",
    refresh     |-> FALSE,
    size        |-> NoSize ]

\* the state before main runs, for a command line taken from inputs
InitWith(inputs) ==
  /\ cli \in inputs
  /\ mainPc = "logging"
  /\ queue = NoChannels
  /\ rxAlive = [w \in Workers |-> FALSE]
  /\ app = NoApp
  /\ lockHolder = "none"
  /\ workerPc = [w \in Workers |-> "unspawned"]
  /\ cur = [w \in Workers |-> 0]
  /\ clients = {}
  /\ uiPc = "unstarted"
  /\ uiPending = <<>>
  /\ is_first_render = FALSE
  /\ rawMode = FALSE
  /\ altScreen = FALSE
  /\ dispatched = [w \in Workers |-> 0]
  /\ started = [w \in Workers |-> <<>>]
  /\ finished = [w \in Workers |-> <<>>]
  /\ errWrites = [w \in Workers |-> 0]
  /\ uiSuspends = 0
  /\ event = "none"
  /\ shutdownCalled = FALSE
  /\ streamReq = <<>>
  /\ streams = {}
  /\ reported = "none"
  /\ calls = <<>>
  /\ firstEvent = "none"
  /\ firstRenderCalls = 0

Init == InitWith(CliInputs)

\* the panic hook: disable_raw_mode(); execute!(stdout, LeaveAlternateScreen, ..)
PanicHook == rawMode' = FALSE /\ altScreen' = FALSE

\* if cli.debug.is_some() { setup_logging(..)?; }
MainLogging ==
  /\ mainPc = "logging"
  /\ \E ok \in BOOLEAN : mainPc' = IF ok THEN "validate" ELSE "exited_err"
  /\ UNCHANGED <<cli, chanVars, app, lockHolder, workerVars, uiVars, termVars>>

\* the two checks of the command line, each a panic
MainValidate ==
  /\ mainPc = "validate"
  /\ IF ValidationPanics(cli)
       THEN mainPc' = "panicked" /\ PanicHook
       ELSE mainPc' = "create" /\ UNCHANGED <<rawMode, altScreen>>
  /\ UNCHANGED <<cli, chanVars, app, lockHolder, workerVars, uiVars>>

\* the three mpsc::channel(500) and Arc::new(Mutex::new(App::new(..)))
MainCreate ==
  /\ mainPc = "create"
  /\ queue' = [w \in Workers |-> <<>>]
  /\ rxAlive' = [w \in Workers |-> TRUE]
  /\ app' = NewApp(cli)
  /\ mainPc' = "spawn_network"
  /\ UNCHANGED <<cli, dispatched, streamReq, lockHolder, workerVars, uiVars,
                 termVars>>

\* the cmd thread made to start like the other two, with get_client
CmdEntryWithClient == "get_client"

\* where a spawned thread's function begins
\* start_cmd_runner: let mut cmd = CmdRunner::new(app); and then its loop
CmdEntry == "recv"

\* start_network and start_stream_network begin with get_client(None).await
EntryOf(w) == IF w = "cmd" THEN CmdEntry ELSE "get_client"

SpawnOrder == <<"network", "stream", "cmd">>
SpawnPc(i) == IF i = 1 THEN "spawn_network" ELSE IF i = 2 THEN "spawn_stream" ELSE "spawn_cmd"

\* std::thread::spawn(move || { start_..(rx, &app_..) }), in program order
MainSpawn ==
  /\ \E i \in 1..3 :
       /\ mainPc = SpawnPc(i)
       /\ workerPc' = [workerPc EXCEPT ![SpawnOrder[i]] = EntryOf(SpawnOrder[i])]
       /\ mainPc' = IF i < 3 THEN SpawnPc(i + 1) ELSE "start_ui"
  /\ UNCHANGED <<cli, chanVars, app, lockHolder, cur, clients, started,
                 finished, errWrites, streams, uiVars, termVars>>

\* start_ui(cli, &app).await?
MainStartUi ==
  /\ mainPc = "start_ui"
  /\ mainPc' = "await_ui"
  /\ uiPc' = "starting"
  /\ UNCHANGED <<cli, chanVars, app, lockHolder, workerVars, uiPending,
                 is_first_render, uiSuspends, event, shutdownCalled, loopVars,
                 termVars>>

\* start_ui(..).await?; Ok(()): main returns what start_ui returned, the process
\* ends and the detached worker threads end with it
UiReturns(ok) ==
  /\ uiPc' = IF ok THEN "returned_ok" ELSE "returned_err"
  /\ mainPc' = IF ok THEN "exited_ok" ELSE "exited_err"

\* a panic on the main thread: the hook runs and the process ends
UiPanics ==
  /\ uiPc' = "panicked"
  /\ mainPc' = "panicked"
  /\ PanicHook

ProcessAlive == mainPc \notin {"exited_ok", "exited_err", "panicked"}

\* the outcomes of a fallible terminal call that the environment can produce
Failures(io, steps) == IF FALSE \in io THEN {"none"} \cup steps ELSE {"none"}

(***************************************************************************)
(* The worker threads: start_network, start_stream_network and             *)
(* start_cmd_runner.                                                       *)
(***************************************************************************)
\* the Err arm falling through into the consume loop
AfterGetClientAlwaysLoop(ok) == "recv"

\* match get_client(None).await { Ok(client) => <consume loop>, Err(e) => <report> }
AfterGetClient(ok) == IF ok THEN "recv" ELSE "err_lock"

\* get_client(None).await returns
WorkerGetClient ==
  /\ ProcessAlive
  /\ \E w \in Workers, ok \in BOOLEAN :
       /\ workerPc[w] = "get_client"
       /\ workerPc' = [workerPc EXCEPT ![w] = AfterGetClient(ok)]
       /\ clients' = IF ok THEN clients \cup {w} ELSE clients
  /\ UNCHANGED <<cli, mainPc, chanVars, app, lockHolder, cur, started,
                 finished, errWrites, streams, uiVars, termVars>>

\* App::handle_error (design document: set_error overwrites the single banner)
HandleError(a, e) == [a EXCEPT !.error = e]

\* a Receiver that outlives the function that owned it
ReceiverKept == TRUE

\* the function returns: io_rx, its parameter, is dropped
ReceiverAfterReturn == FALSE

\* Err(e) => { let mut app = app.lock().await; app.handle_error(..) }, after which
\* the function returns and drops its Receiver, which closes the channel and
\* discards what it holds
WorkerStartupError ==
  /\ ProcessAlive
  /\ lockHolder = "none"
  /\ \E w \in Workers :
       /\ workerPc[w] = "err_lock"
       /\ app' = HandleError(app, "client")
       /\ errWrites' = [errWrites EXCEPT ![w] = @ + 1]
       /\ workerPc' = [workerPc EXCEPT ![w] = "returned"]
       /\ rxAlive' = [rxAlive EXCEPT ![w] = ReceiverAfterReturn]
       /\ queue' = [queue EXCEPT ![w] = IF ReceiverAfterReturn THEN @ ELSE <<>>]
  /\ UNCHANGED <<cli, mainPc, dispatched, streamReq, lockHolder, cur,
                 clients, started, finished, streams, uiVars, termVars>>

\* a channel that hands out its newest message
ChannelRecvNewest(q) == [msg |-> q[Len(q)], rest |-> SubSeq(q, 1, Len(q) - 1)]

\* io_rx.recv(): the channel hands out its oldest message
ChannelRecv(q) == [msg |-> Head(q), rest |-> Tail(q)]

\* a loop that takes the next request while the handler of the last one runs
AtRecvOrHandling(pc) == pc \in {"recv", "handling"}

\* the loop body is handler(io_event).await: recv() is reached again only when
\* the handler has returned
AtRecv(pc) == pc = "recv"

\* while let Some(io_event) = io_rx.recv().await: worker w, idle at the top of
\* its loop, takes the next request
WorkerRecvOf(w, maxHandled) ==
  /\ ProcessAlive
  /\ AtRecv(workerPc[w])
  /\ queue[w] # <<>>
  /\ Len(started[w]) < maxHandled
  /\ LET r == ChannelRecv(queue[w]) IN
       /\ queue' = [queue EXCEPT ![w] = r.rest]
       /\ cur' = [cur EXCEPT ![w] = r.msg]
       /\ started' = [started EXCEPT ![w] = Append(@, r.msg)]
  /\ workerPc' = [workerPc EXCEPT ![w] = "handling"]
  /\ UNCHANGED <<cli, mainPc, rxAlive, dispatched, streamReq, app, lockHolder,
                 clients, finished, errWrites, streams, uiVars, termVars>>

WorkerRecv(maxHandled) == \E w \in Workers : WorkerRecvOf(w, maxHandled)

\* handle_network_event / handle_network_stream_event / handle_cmd_event, first
\* half (design document): the remote call, made without the lock, returns
WorkerRemoteCall ==
  /\ ProcessAlive
  /\ \E w \in Workers :
       /\ workerPc[w] = "handling"
       /\ workerPc' = [workerPc EXCEPT ![w] = "write"]
  /\ UNCHANGED <<cli, mainPc, chanVars, app, lockHolder, cur, clients, started,
                 finished, errWrites, streams, uiVars, termVars>>

\* an unexpected internal failure (design document) while a handler runs: the
\* thread panics.  The panic hook runs, the thread unwinds and drops its
\* Receiver, and the subscriptions of a stream worker end with it.
WorkerDies ==
  /\ ProcessAlive
  /\ \E w \in Workers :
       /\ workerPc[w] = "handling"
       /\ workerPc' = [workerPc EXCEPT ![w] = "died"]
       /\ rxAlive' = [rxAlive EXCEPT ![w] = ReceiverAfterReturn]
       /\ queue' = [queue EXCEPT ![w] = IF ReceiverAfterReturn THEN @ ELSE <<>>]
       /\ streams' = IF w = "stream" THEN {} ELSE streams
  /\ PanicHook
  /\ UNCHANGED <<cli, mainPc, dispatched, streamReq, app, lockHolder, cur,
                 clients, started, finished, errWrites, uiVars>>

\* the handler's write (design document): success replaces the snapshot, failure
\* sets the error banner and leaves the snapshot
WriteResult(a, w, res) ==
  IF res = "ok"
    THEN IF w = "network" THEN [a EXCEPT !.data = "snapshot"] ELSE a
    ELSE HandleError(a, "request")

\* the stream worker's handles (design document): a start that succeeds opens a
\* subscription, a stop ends the one it names, and a stop of a handle that is
\* not open changes nothing
StreamsAfter(s, w, id, res) ==
  IF w # "stream" \/ res # "ok"
    THEN s
    ELSE IF streamReq[id].op = "start" THEN s \cup {id}
                                      ELSE s \ {streamReq[id].handle}

\* a start handler that serves its subscription itself and returns when the
\* stream ends
ReturnsWhenStreamEnds(w, id, res) ==
  ~(w = "stream" /\ res = "ok" /\ streamReq[id].op = "start")

\* design document: a start begins receiving concurrently with the servicing of
\* the queue, so the handler of every request returns once its result is written
HandlerReturns(w, id, res) == TRUE

\* a loop that ends with the first request that fails
AfterHandledStopOnFailure(res) == IF res = "ok" THEN "recv" ELSE "returned"

\* the handlers return (), the loop body ignores how the request went and the
\* loop goes on to the next recv()
AfterHandled(res) == "recv"

\* second half of the handler: lock, write the call's result, unlock; the .await
\* in the loop body returns and the worker is back at recv()
WorkerWrite ==
  /\ ProcessAlive
  /\ lockHolder = "none"
  /\ \E w \in Workers, res \in {"ok", "failed"} :
       /\ workerPc[w] = "write"
       /\ app' = WriteResult(app, w, res)
       /\ streams' = StreamsAfter(streams, w, cur[w], res)
       /\ IF HandlerReturns(w, cur[w], res)
            THEN /\ finished' = [finished EXCEPT ![w] = Append(@, cur[w])]
                 /\ cur' = [cur EXCEPT ![w] = 0]
                 /\ workerPc' = [workerPc EXCEPT ![w] = AfterHandled(res)]
            ELSE /\ workerPc' = [workerPc EXCEPT ![w] = "streaming"]
                 /\ UNCHANGED <<finished, cur>>
  /\ UNCHANGED <<cli, mainPc, chanVars, lockHolder, clients, started, errWrites,
                 uiVars, termVars>>

\* an open subscription (design document): whenever new data arrives it pushes it
\* into the App under the lock, or records its error; the other subscriptions
\* and the worker's loop are not involved
StreamPush ==
  /\ ProcessAlive
  /\ lockHolder = "none"
  /\ \E h \in streams, res \in {"ok", "failed"} :
       app' = IF res = "ok" THEN [app EXCEPT !.logs = "lines"]
                            ELSE HandleError(app, "stream")
  /\ UNCHANGED <<cli, mainPc, chanVars, lockHolder, workerVars, uiVars, termVars>>

(***************************************************************************)
(* start_ui and shutdown                                                   *)
(***************************************************************************)
\* enable_raw_mode()?; execute!(stdout, EnterAlternateScreen)?;
\* Terminal::new(backend)?; terminal.clear()?; terminal.hide_cursor()?;
\* Events::new(cli.tick_rate); let mut is_first_render = true;
\* each ? returns from start_ui at the first call that fails
UiStart(io) ==
  /\ ProcessAlive
  /\ uiPc = "starting"
  /\ \E failAt \in Failures(io, {"raw", "alt", "term"}) :
       /\ rawMode' = IF failAt = "raw" THEN rawMode ELSE TRUE
       /\ altScreen' = IF failAt \in {"raw", "alt"} THEN altScreen ELSE TRUE
       /\ IF failAt = "none"
            THEN uiPc' = "loop_top" /\ is_first_render' = TRUE /\ mainPc' = mainPc
            ELSE UiReturns(FALSE) /\ UNCHANGED is_first_render
  /\ UNCHANGED <<cli, chanVars, app, lockHolder, workerVars, uiPending,
                 uiSuspends, event, shutdownCalled, loopVars>>

\* the size is taken over only when a refresh was asked for
RefreshOnly(a, size) == a.refresh

\* if app.refresh || app.size != size
SizeChanged(a, size) == a.refresh \/ a.size # size

\* if let Ok(size) = terminal.backend().size() { if .. { app.size = size; } };
UpdateSize(a, r) ==
  IF r # "err" /\ SizeChanged(a, r) THEN [a EXCEPT !.size = r] ELSE a

\* let mut app = app.lock().await; <size>; terminal.draw(|f| ui::draw(f, &mut app))?;
\* a draw error returns from start_ui, which drops the guard
UiLockDraw(io, sizes) ==
  /\ ProcessAlive
  /\ uiPc = "loop_top"
  /\ lockHolder = "none"
  /\ \E r \in sizes, failAt \in Failures(io, {"draw"}) :
       /\ app' = UpdateSize(app, r)
       /\ reported' = r
       /\ IF failAt = "none"
            THEN lockHolder' = "ui" /\ uiPc' = "await_event" /\ mainPc' = mainPc
            ELSE lockHolder' = "none" /\ UiReturns(FALSE)
  /\ calls' = <<>>
  /\ UNCHANGED <<cli, chanVars, workerVars, uiPending, is_first_render,
                 uiSuspends, event, shutdownCalled, firstEvent, firstRenderCalls,
                 termVars>>

\* the comparison made with another key
IsInterruptWrongKey(e) == e = "KeyCmd"

\* the comparison left out: Ctrl+C is a key like any other
IsInterruptNever(e) == FALSE

\* if key == Key::Ctrl('c') { break; }
IsInterrupt(e) == e = "CtrlC"

\* if app.should_quit { break; }
LoopExit(a) == a.should_quit

\* the position after the end of an iteration
AfterIteration(a) == IF LoopExit(a) THEN "leaving" ELSE "loop_top"

\* App::on_tick (design document): the tick counter advances
OnTick(a) == [a EXCEPT !.tick_count = @ + 1]

\* design document: a poll tick is one with tick_counter mod poll_to_tick_ratio = 0
IsPollTick(a) == a.tick_count % a.poll_ratio = 0

\* the remainder by a zero ratio panics
HandlerPanics(e, a) == e = "Tick" /\ a.poll_ratio = 0

\* handlers::handle_key_events, handlers::handle_mouse_events and App::on_tick
\* (design document): what the handler of e leaves in the App
HandlerApp(e, a) ==
  CASE e = "Tick"       -> OnTick(a)
    [] e = "KeyQuit"    -> [a EXCEPT !.should_quit = TRUE]
    [] e = "KeyRefresh" -> [a EXCEPT !.refresh = TRUE]
    [] OTHER            -> a

\* and the channels it sends on, in order: one refresh on a poll tick (one visible
\* kind), one stream request or one cmd request for the keys that ask for it
HandlerSends(e, a) ==
  CASE e = "Tick"      -> IF IsPollTick(OnTick(a)) THEN <<"network">> ELSE <<>>
    [] e = "KeyStream" -> <<"stream">>
    [] e = "KeyStreamStop" -> <<"stream">>
    [] e = "KeyCmd"    -> <<"cmd">>
    [] OTHER           -> <<>>

\* the id of the last start among the stream requests made so far, 0 if none
LastStart(reqs) ==
  LET ids == {i \in DOMAIN reqs : reqs[i].op = "start"}
  IN IF ids = {} THEN 0 ELSE CHOOSE i \in ids : \A j \in ids : j <= i

\* the stream requests after the handler of e (design document: a request is a
\* start or the stop of a handle): a start is known by its own id, a stop names
\* the subscription started last
StreamReqAfter(e, reqs) ==
  CASE e = "KeyStream"     -> Append(reqs, [op |-> "start", handle |-> Len(reqs) + 1])
    [] e = "KeyStreamStop" -> Append(reqs, [op |-> "stop", handle |-> LastStart(reqs)])
    [] OTHER               -> reqs

\* the bounds on the events the model delivers
EventAllowed(e, maxTicks, maxKeys) ==
  /\ e = "Tick" => app.tick_count < maxTicks
  /\ e \in {"KeyStream", "KeyStreamStop"} => dispatched["stream"] < maxKeys
  /\ e = "KeyCmd" => dispatched["cmd"] < maxKeys

\* the variant of Event that e is
VariantOf(e) ==
  CASE e = "Tick" -> "Tick" [] e = "Mouse" -> "MouseInput" [] OTHER -> "Input"

\* the arms of the match: Input => handle_key_events, MouseInput =>
\* handle_mouse_events, Tick => on_tick
HandlerOf(e) ==
  CASE VariantOf(e) = "Tick"       -> "on_tick"
    [] VariantOf(e) = "MouseInput" -> "handle_mouse_events"
    [] OTHER                       -> "handle_key_events"

\* the handler called for e
Called(e) == <<[handler |-> HandlerOf(e), event |-> e]>>

\* app.on_tick(is_first_render): the calls made with the flag set
FirstRenderCallsAfter(e, flag, n) == IF e = "Tick" /\ flag THEN n + 1 ELSE n

FirstEventAfter(e, first) == IF first = "none" THEN VariantOf(e) ELSE first

\* a flag that is cleared by the first tick only
FirstRenderUntilTick(e, flag) == flag /\ e # "Tick"

\* is_first_render = false; at the end of every iteration
FirstRenderAfter(e, flag) == FALSE

\* the event of the iteration that has just ended; the interrupt key is kept
EventAfter(e) == IF e = "CtrlC" THEN e ELSE "none"

\* match events.next()? { Input(key) => .., MouseInput(mouse) => .., Tick => .. }
\* up to the handler's first send, or to the end of the iteration when it sends
\* nothing: is_first_render = false; if app.should_quit { break; }; the guard is
\* dropped at the end of the loop body.  The handlers run with the guard held
\* (they take &mut app, and the Senders live inside the App).
UiEvent(io, events, maxTicks, maxKeys) ==
  /\ ProcessAlive
  /\ uiPc = "await_event"
  /\ \E e \in events \cup (Failures(io, {"Error"}) \ {"none"}) :
       /\ EventAllowed(e, maxTicks, maxKeys)
       /\ IF e = "Error"
            THEN /\ UiReturns(FALSE)
                 /\ lockHolder' = "none"
                 /\ UNCHANGED <<app, uiPending, is_first_render, event, dispatched,
                                streamReq, calls, firstEvent, firstRenderCalls,
                                termVars>>
          ELSE IF IsInterrupt(e)
            THEN /\ uiPc' = "leaving"
                 /\ lockHolder' = "none"
                 /\ event' = e
                 /\ firstEvent' = FirstEventAfter(e, firstEvent)
                 /\ UNCHANGED <<mainPc, app, uiPending, is_first_render, dispatched,
                                streamReq, calls, firstRenderCalls, termVars>>
          ELSE IF HandlerPanics(e, app)
            THEN /\ UiPanics
                 /\ lockHolder' = "none"
                 /\ event' = e
                 /\ calls' = calls \o Called(e)
                 /\ firstEvent' = FirstEventAfter(e, firstEvent)
                 /\ firstRenderCalls' =
                       FirstRenderCallsAfter(e, is_first_render, firstRenderCalls)
                 /\ UNCHANGED <<app, uiPending, is_first_render, dispatched,
                                streamReq>>
          ELSE LET a2 == HandlerApp(e, app)
                   to == HandlerSends(e, app)
               IN /\ app' = a2
                  /\ uiPending' = to
                  /\ dispatched' = [w \in Workers |->
                        dispatched[w] + Cardinality({i \in DOMAIN to : to[i] = w})]
                  /\ streamReq' = StreamReqAfter(e, streamReq)
                  /\ calls' = calls \o Called(e)
                  /\ firstEvent' = FirstEventAfter(e, firstEvent)
                  /\ firstRenderCalls' =
                        FirstRenderCallsAfter(e, is_first_render, firstRenderCalls)
                  /\ IF to = <<>>
                       THEN /\ is_first_render' = FirstRenderAfter(e, is_first_render)
                            /\ lockHolder' = "none"
                            /\ uiPc' = AfterIteration(a2)
                            /\ event' = EventAfter(e)
                       ELSE /\ uiPc' = "sending"
                            /\ event' = e
                            /\ UNCHANGED <<is_first_render, lockHolder>>
                  /\ UNCHANGED <<mainPc, termVars>>
  /\ UNCHANGED <<cli, queue, rxAlive, workerVars, uiSuspends,
                 shutdownCalled, reported>>

\* a channel that takes one message more than its capacity
ChannelFullOffByOne(q) == Len(q) > QueueCapacity

\* mpsc::channel::<..>(500): send() finds no free slot
ChannelFull(q) == Len(q) >= QueueCapacity

\* the id of the request the handler is sending: requests on a channel are
\* numbered in the order the handlers made them
PendingId == dispatched[Head(uiPending)] - Len(SelectSeq(uiPending,
                 LAMBDA x : x = Head(uiPending))) + 1

\* Sender::send(request).await on a channel of capacity 500 (design document: App
\* dispatches with send().await and reports a send error in the banner): with
\* the Receiver gone it returns Err; on a full channel it suspends; otherwise the
\* request is appended.  After the handler's last send the iteration ends as in
\* UiEvent.
UiSend ==
  /\ ProcessAlive
  /\ uiPc \in {"sending", "suspended"}
  /\ uiPending # <<>>
  /\ LET w == Head(uiPending)
         rest == Tail(uiPending)
         done == /\ uiPending' = rest
                 /\ IF rest = <<>>
                      THEN /\ is_first_render' =
                                 FirstRenderAfter(event, is_first_render)
                           /\ lockHolder' = "none"
                           /\ uiPc' = AfterIteration(app')
                           /\ event' = EventAfter(event)
                      ELSE /\ uiPc' = "sending"
                           /\ UNCHANGED <<is_first_render, lockHolder, event>>
     IN IF ~rxAlive[w]
          THEN /\ app' = HandleError(app, "dispatch")
               /\ done
               /\ UNCHANGED <<queue, uiSuspends>>
        ELSE IF ChannelFull(queue[w])
          THEN /\ uiPc = "sending"
               /\ uiPc' = "suspended"
               /\ uiSuspends' = uiSuspends + 1
               /\ UNCHANGED <<app, queue, uiPending, is_first_render,
                              lockHolder, event>>
        ELSE /\ queue' = [queue EXCEPT ![w] = Append(@, PendingId)]
             /\ app' = app
             /\ done
             /\ UNCHANGED uiSuspends
  /\ UNCHANGED <<cli, mainPc, rxAlive, dispatched, streamReq, workerVars,
                 shutdownCalled, loopVars, termVars>>

\* after the loop: terminal.show_cursor()?; shutdown(terminal)?; Ok(())
\* shutdown: disable_raw_mode()?; execute!(.., LeaveAlternateScreen)?;
\* terminal.show_cursor()?; each ? returns at the first call that fails
UiLeave(io) ==
  /\ ProcessAlive
  /\ uiPc = "leaving"
  /\ \E failAt \in Failures(io, {"show_cursor", "raw", "alt", "cursor"}) :
       /\ shutdownCalled' = (failAt # "show_cursor")
       /\ rawMode' = IF failAt \in {"show_cursor", "raw"} THEN rawMode ELSE FALSE
       /\ altScreen' = IF failAt \in {"show_cursor", "raw", "alt"}
                         THEN altScreen ELSE FALSE
       /\ UiReturns(failAt = "none")
  /\ UNCHANGED <<cli, chanVars, app, lockHolder, workerVars, uiPending,
                 is_first_render, uiSuspends, event, loopVars>>

(***************************************************************************)
(* The program                                                             *)
(***************************************************************************)
Next ==
  \/ MainLogging
  \/ MainValidate
  \/ MainCreate
  \/ MainSpawn
  \/ MainStartUi
  \/ WorkerGetClient
  \/ WorkerStartupError
  \/ WorkerRecv(MaxHandled)
  \/ WorkerRemoteCall
  \/ WorkerWrite
  \/ StreamPush
  \/ UiStart(BOOLEAN)
  \/ UiLockDraw(BOOLEAN, OneSize)
  \/ UiEvent(BOOLEAN, AllEvents, MaxTicks, MaxKeyRequests)
  \/ UiSend
  \/ UiLeave(BOOLEAN)

Spec == Init /\ [][Next]_vars

\* the same program under load: the terminal calls succeed and only ticks arrive,
\* so that the loop is never left; a worker thread can die in a handler
LoadNext ==
  \/ MainLogging
  \/ MainValidate
  \/ MainCreate
  \/ MainSpawn
  \/ MainStartUi
  \/ WorkerGetClient
  \/ WorkerStartupError
  \/ WorkerRecv(MaxLoadHandled)
  \/ WorkerRemoteCall
  \/ WorkerDies
  \/ WorkerWrite
  \/ UiStart({TRUE})
  \/ UiLockDraw({TRUE}, OneSize)
  \/ UiEvent({TRUE}, LoadEvents, MaxLoadTicks, 0)
  \/ UiSend

\* the default command line but for a poll rate equal to the tick rate: every
\* tick is a poll tick
LoadCli == [tick_rate |-> 250, poll_rate |-> 250]

LoadInit == Init /\ cli = LoadCli

LoadSpec == LoadInit /\ [][LoadNext]_vars

\* the same program with nothing but the keys that make stream and cmd requests
KeyNext ==
  \/ MainLogging
  \/ MainValidate
  \/ MainCreate
  \/ MainSpawn
  \/ MainStartUi
  \/ WorkerGetClient
  \/ WorkerStartupError
  \/ WorkerRecv(MaxHandled)
  \/ WorkerRemoteCall
  \/ WorkerWrite
  \/ StreamPush
  \/ UiStart({TRUE})
  \/ UiLockDraw({TRUE}, OneSize)
  \/ UiEvent({TRUE}, KeyEvents, 0, MaxKeySpecRequests)
  \/ UiSend

KeySpec == LoadInit /\ [][KeyNext]_vars

\* the same program in a terminal that is resized, or fails to tell its size
SizeNext ==
  \/ MainLogging
  \/ MainValidate
  \/ MainCreate
  \/ MainSpawn
  \/ MainStartUi
  \/ WorkerGetClient
  \/ WorkerStartupError
  \/ WorkerRecv(MaxHandled)
  \/ WorkerRemoteCall
  \/ WorkerWrite
  \/ UiStart({TRUE})
  \/ UiLockDraw({TRUE}, SizeResults)
  \/ UiEvent({TRUE}, SizeEvents, MaxTicks, 0)
  \/ UiSend

SizeSpec == LoadInit /\ [][SizeNext]_vars

\* the same program with nothing but ticks, long enough for the second batch of
\* a ratio of 20
PollNext ==
  \/ MainLogging
  \/ MainValidate
  \/ MainCreate
  \/ MainSpawn
  \/ MainStartUi
  \/ WorkerGetClient
  \/ WorkerStartupError
  \/ WorkerRecv(MaxHandled)
  \/ WorkerRemoteCall
  \/ WorkerWrite
  \/ UiStart({TRUE})
  \/ UiLockDraw({TRUE}, OneSize)
  \/ UiEvent({TRUE}, LoadEvents, MaxPollTicks, 0)
  \/ UiSend

PollInit == InitWith(PollCliInputs)

PollSpec == PollInit /\ [][PollNext]_vars

(***************************************************************************)
(* Properties                                                              *)
(***************************************************************************)
ChannelsExist == DOMAIN queue # {}
AppExists == DOMAIN app # {}
UiReturned == uiPc \in {"returned_ok", "returned_err"}
InLoop(w) == workerPc[w] \in {"recv", "handling", "write"}

\* the sends for channel w that the running handler has not made yet
PendingFor(w) == Cardinality({i \in DOMAIN uiPending : uiPending[i] = w})

\* the sequence a, a+1, .., b
Ids(a, b) == [i \in 1..(b - a + 1) |-> a + i - 1]

\* everything handed to send() for w so far, in order, is either taken by the
\* worker or still in the channel
NothingLost(w) ==
  started[w] \o queue[w] = Ids(1, dispatched[w] - PendingFor(w))

\* C1: whenever the UI loop is suspended, in events.next() or in a send on a full
\* channel, it does not hold the lock on the App.
C1_NoSuspendHoldingLock ==
  uiPc \in {"await_event", "suspended"} => lockHolder # "ui"

\* C2: the network worker takes the requests of its channel in the order they
\* were sent, none skipped, and takes the next one only after it has completed
\* the one before: at most one request is in flight.
C2_QueryFifoOneInFlight ==
  LET s == started["network"]
      f == finished["network"]
  IN /\ \A i \in 1..Len(s) : s[i] = i
     /\ f = SubSeq(s, 1, Len(f))
     /\ Len(s) - Len(f) \in {0, 1}
     /\ workerPc["network"] = "recv" => Len(s) = Len(f)
     /\ (ChannelsExist /\ rxAlive["network"]) => NothingLost("network")

\* two refreshes were sent and the network worker has completed both, the first
\* before it took the second
C2_Witness ==
  /\ finished["network"] = <<1, 2>>
  /\ dispatched["network"] >= 2
  /\ workerPc["network"] = "recv"

\* C3: no channel ever holds more than 500 requests; a send on a full channel
\* leaves the UI loop suspended with the request still to be sent, it neither
\* fails nor drops it; and as soon as the channel has a free slot again the
\* suspended send can complete, after which the request is in the channel.
C3_Backpressure ==
  /\ \A w \in DOMAIN queue :
       /\ Len(queue[w]) <= QueueCapacity
       /\ rxAlive[w] => NothingLost(w)
  /\ uiPc = "suspended" => uiPending # <<>>
  /\ (AppExists /\ app.error = "dispatch") => \E w \in Workers : ~rxAlive[w]
  /\ (uiPc = "suspended" /\ Len(queue[Head(uiPending)]) < QueueCapacity)
       => ENABLED UiSend

\* the UI loop was suspended on the full network channel, the worker took one
\* request, and the suspended send went through: request 501 is in the channel
C3_Witness ==
  /\ uiSuspends >= 1
  /\ uiPc # "suspended"
  /\ ChannelsExist
  /\ Len(queue["network"]) = QueueCapacity
  /\ queue["network"][QueueCapacity] = QueueCapacity + 1

PostLoop == {"leaving", "returned_ok", "returned_err"}

\* C4: once the interrupt key has been read, or should_quit is set when the
\* iteration ends, the loop has been left in that iteration; what follows the
\* loop waits for no worker and for no lock, and unless a terminal call fails
\* it leaves the terminal released.
C4_QuitImmediate ==
  /\ event = "CtrlC" => uiPc \in PostLoop
  /\ (AppExists /\ app.should_quit) =>
        uiPc \in PostLoop \cup {"sending", "suspended"}
  /\ uiPc = "leaving" => (lockHolder # "ui" /\ ENABLED UiLeave(BOOLEAN))
  /\ uiPc = "returned_ok" => (shutdownCalled /\ ~rawMode /\ ~altScreen)

\* the user quit while the network worker had a request in flight, and start_ui
\* returned with the terminal released
C4_Witness ==
  /\ uiPc = "returned_ok"
  /\ event = "CtrlC"
  /\ workerPc["network"] = "handling"
  /\ ~rawMode /\ ~altScreen

\* C5: once the terminal is in raw mode, every way start_ui ends has run
\* shutdown(terminal).
C5_ReleaseOnEveryExit ==
  (UiReturned /\ rawMode) => shutdownCalled

\* C6: a network or stream worker whose get_client failed never takes a request
\* and writes its startup error at most once, exactly once by the time it has
\* returned; a worker whose get_client succeeded writes no startup error, and
\* only such a worker is in the consume loop.
C6_ClientFailure ==
  \A w \in {"network", "stream"} :
    /\ errWrites[w] <= 1
    /\ workerPc[w] \in {"err_lock", "returned"} =>
          (started[w] = <<>> /\ w \notin clients)
    /\ workerPc[w] = "err_lock" => errWrites[w] = 0
    /\ workerPc[w] = "returned" => errWrites[w] = 1
    /\ w \in clients => (errWrites[w] = 0 /\ InLoop(w))
    /\ InLoop(w) => w \in clients

\* the network worker failed to get a client while refreshes were being sent: it
\* wrote the error once and took none of them
C6_Witness ==
  /\ workerPc["network"] = "returned"
  /\ errWrites["network"] = 1
  /\ dispatched["network"] >= 1
  /\ "stream" \in clients

C8_StartupErrorNeverLockedOut ==
  \A w \in Workers :
    workerPc[w] = "err_lock" =>
      ~(/\ uiPc = "suspended"
        /\ lockHolder = "ui"
        /\ Head(uiPending) = w
        /\ ChannelFull(queue[w]))

\* p is an exact multiple of t
IsMultiple(p, t) == IF t = 0 THEN p = 0 ELSE p % t = 0

InvalidConfig ==
  cli.tick_rate >= 1000 \/ ~IsMultiple(cli.poll_rate, cli.tick_rate)

\* C9: with a tick rate of 1000 or more, or a poll rate that is no exact multiple
\* of the tick rate, main ends before it has created a channel, the App, a
\* worker thread or the UI; and the ratio of an App that exists is exact.
C9_ValidationFirst ==
  /\ InvalidConfig =>
       /\ mainPc \in {"logging", "validate", "panicked", "exited_err"}
       /\ ~ChannelsExist
       /\ ~AppExists
       /\ \A w \in Workers : workerPc[w] = "unspawned"
       /\ uiPc = "unstarted"
       /\ ~rawMode /\ ~altScreen
  /\ AppExists => app.poll_ratio * cli.tick_rate = cli.poll_rate

\* poll rate 1200 with tick rate 250 was rejected by the panic
C9_Witness ==
  /\ mainPc = "panicked"
  /\ cli = [tick_rate |-> 250, poll_rate |-> 1200]

\* C10: the ratio stored in the App is at least 1.
C10_RatioAtLeastOne ==
  AppExists => app.poll_ratio >= 1

\* C11: with R the poll rate divided by the tick rate, the refreshes handed to the
\* network channel after n ticks number n div R: tick n sends a refresh exactly
\* when R divides n and no other tick sends one; each batch is one refresh (one
\* visible kind), it is sent within its tick and none is lost.
C11_PollRatio ==
  AppExists =>
    LET R == cli.poll_rate \div cli.tick_rate
        n == app.tick_count
    IN /\ dispatched["network"] = n \div R
       /\ PendingFor("network") <= 1
       /\ PendingFor("network") = 1 => n % R = 0
       /\ rxAlive["network"] => NothingLost("network")

\* tick 250 ms, poll 5000 ms: forty ticks have passed and exactly two refreshes
\* were enqueued, the second by tick 40
C11_Witness ==
  /\ AppExists
  /\ cli.poll_rate = 5000
  /\ app.tick_count = 40
  /\ dispatched["network"] = 2
  /\ uiPc = "loop_top"
  /\ started["network"] \o queue["network"] = <<1, 2>>

\* C12: an open subscription does not keep the stream worker from its queue.  The
\* handler of the start that opened it has returned (the start is among the
\* finished requests), the worker is never held inside a handler for the length
\* of a stream, and with a subscription open an idle worker can take the next
\* request of its channel, the stop of that subscription included.
C12_StreamQueueNotBlocked ==
  /\ \A h \in streams :
       \E i \in DOMAIN finished["stream"] : finished["stream"][i] = h
  /\ workerPc["stream"] # "streaming"
  /\ (/\ streams # {}
      /\ workerPc["stream"] = "recv"
      /\ queue["stream"] # <<>>
      /\ Len(started["stream"]) < MaxHandled)
       => ENABLED WorkerRecvOf("stream", MaxHandled)

\* subscription 1 is open and has pushed data, and the worker has taken the
\* request sent after its start, the stop that names it
C12_Witness ==
  /\ streams = {1}
  /\ app.logs = "lines"
  /\ started["stream"] = <<1, 2>>
  /\ streamReq[2] = [op |-> "stop", handle |-> 1]
  /\ workerPc["stream"] = "handling"

\* C13: no step takes a worker out of its consume loop, and its Receiver stays:
\* the step that ends the handling of a request, whether the request succeeded
\* or failed, puts the worker back at recv() with that request completed, and a
\* failure leaves nothing behind but the error banner.
C13_ErrorIsolation ==
  [][\A w \in Workers :
       /\ InLoop(w) => (workerPc'[w] \in {"recv", "handling", "write"} /\ rxAlive'[w])
       /\ (workerPc[w] = "write" /\ workerPc'[w] # "write") =>
             /\ workerPc'[w] = "recv"
             /\ finished'[w] = Append(finished[w], cur[w])
             /\ \/ app' = WriteResult(app, w, "ok")
                \/ app' = HandleError(app, "request")]_vars

\* the first refresh failed (the banner is set, no snapshot was written, no other
\* worker has handled anything) and the network worker has taken the second
C13_Witness ==
  /\ AppExists
  /\ app.error = "request"
  /\ app.data = "empty"
  /\ finished = [w \in Workers |-> IF w = "network" THEN <<1>> ELSE <<>>]
  /\ started["network"] = <<1, 2>>

\* C14: the cmd worker takes the actions of its channel in the order they were
\* sent, none skipped; it completes them in that order; at most one action is
\* taken and not yet completed, and the worker is at recv() only when none is.
C14_ActionSerialised ==
  LET s == started["cmd"]
      f == finished["cmd"]
  IN /\ s = Ids(1, Len(s))
     /\ f = Ids(1, Len(f))
     /\ Len(f) <= Len(s) /\ Len(s) <= Len(f) + 1
     /\ cur["cmd"] = (IF Len(s) > Len(f) THEN s[Len(s)] ELSE 0)
     /\ workerPc["cmd"] \in {"handling", "write"} <=> Len(s) = Len(f) + 1
     /\ ChannelsExist => NothingLost("cmd")

\* two actions were sent; the worker has completed the first and is handling
\* the second
C14_Witness ==
  /\ dispatched["cmd"] = 2
  /\ finished["cmd"] = <<1>>
  /\ cur["cmd"] = 2
  /\ workerPc["cmd"] = "write"

\* C15: the UI loop and a worker never wait for each other.  Excluded is the
\* state in which the UI loop, holding the lock, is suspended in a send on the
\* full channel of worker w while w, having taken a request, waits for the lock
\* to write its result: there the send waits for w to take a request and w
\* waits for the UI loop to give up the lock.
C15_NoLockQueueCycle ==
  \A w \in Workers :
    ~(/\ uiPc = "suspended"
      /\ lockHolder = "ui"
      /\ Head(uiPending) = w
      /\ ChannelFull(queue[w])
      /\ cur[w] # 0
      /\ workerPc[w] = "write")

\* a worker whose function has returned or whose thread has died
Ended(w) == workerPc[w] \in {"returned", "died"}

\* C16: once a worker has ended its Receiver is gone for good, and from then on
\* no send of the UI loop on its channel suspends: no step takes the loop into a
\* suspended send on that channel, and every step that completes a send on it
\* leaves the dispatch error in the banner and nothing in the channel, however
\* many requests were sent before; the lock is held by the UI loop or by nobody.
C16_DeadWorkerNoStall ==
  [][\A w \in Workers :
       Ended(w) =>
         /\ ~rxAlive[w] /\ ~rxAlive'[w]
         /\ queue'[w] = <<>>
         /\ (uiPc # "suspended" /\ uiPc' = "suspended") => Head(uiPending) # w
         /\ (uiPc \in {"sending", "suspended"} /\ Head(uiPending) = w
               /\ uiPending' # uiPending) => app'.error = "dispatch"
         /\ lockHolder' \in {"none", "ui"}]_vars

\* the network worker failed to get a client and returned; the UI loop has since
\* sent more than 500 refreshes, was never suspended, and is about to lock the
\* App for its next iteration
C16_Witness ==
  /\ workerPc["network"] = "returned"
  /\ dispatched["network"] > QueueCapacity
  /\ uiSuspends = 0
  /\ app.error = "dispatch"
  /\ uiPc = "loop_top"
  /\ lockHolder = "none"

\* the sizes a terminal can report
Sizes == SizeResults \ {"err"}

\* the positions of an iteration after its draw
Drawn == {"await_event", "sending", "suspended"}

\* C17: in an iteration in which the terminal reported its size, the draw and
\* all that follows it in the iteration see an App whose stored size is the
\* reported one.  The step that takes the size over changes nothing else, does
\* nothing when the size cannot be read, and does for a size that differs what
\* it does when the refresh flag is set.
C17_SizeTracked ==
  /\ (uiPc \in Drawn /\ reported \in Sizes) => app.size = reported
  /\ AppExists =>
       /\ UpdateSize(app, "err") = app
       /\ \A r \in Sizes :
            LET asked == [app EXCEPT !.refresh = TRUE]
                plain == [app EXCEPT !.refresh = FALSE]
            IN /\ UpdateSize(app, r) = [app EXCEPT !.size = r]
               /\ UpdateSize(asked, r).size = r
               /\ r # app.size => UpdateSize(plain, r).size = UpdateSize(asked, r).size

\* a refresh was asked for in an earlier iteration; this iteration read the size
\* with the flag set, stored it and has drawn
C17_Witness ==
  /\ uiPc = "await_event"
  /\ app.refresh
  /\ app.tick_count >= 1
  /\ reported = "120x40"
  /\ app.size = "120x40"

\* the step in which the loop receives an event
EventRead == uiPc = "await_event" /\ uiPc' # "await_event"

\* C18: the step that reads Ctrl+C leaves the loop with no handler called, no
\* request made or enqueued and the App as it was; the step before it in that
\* iteration, lock and draw, changes nothing of the App but the stored size and
\* enqueues nothing.  The step that reads any other event calls one handler,
\* once, the one of the event's variant, and no other step calls a handler.
C18_InterruptNotDispatched ==
  [][/\ (EventRead /\ event' = "CtrlC") =>
          /\ uiPc' = "leaving"
          /\ calls' = <<>>
          /\ app' = app
          /\ uiPending' = <<>>
          /\ <<queue, dispatched, streamReq>>' = <<queue, dispatched, streamReq>>
     /\ (uiPc = "loop_top" /\ uiPc' # "loop_top") =>
          /\ app' = [app EXCEPT !.size = app'.size]
          /\ calls' = <<>>
          /\ <<queue, dispatched, streamReq>>' = <<queue, dispatched, streamReq>>
     /\ (EventRead /\ event' # "CtrlC" /\ uiPc' # "returned_err") =>
          /\ Len(calls') = 1
          /\ calls'[1].event # "CtrlC"
          /\ calls'[1].handler = HandlerOf(calls'[1].event)
     /\ (~EventRead /\ calls' # calls) => calls' = <<>>]_vars

\* Ctrl+C was read in an iteration that followed two ticks and a cmd request: the
\* loop is left, no handler was called in that iteration and nothing is pending
C18_Witness ==
  /\ event = "CtrlC"
  /\ uiPc = "leaving"
  /\ calls = <<>>
  /\ uiPending = <<>>
  /\ app.tick_count = 2
  /\ dispatched["cmd"] = 1

\* C19: on_tick is called with is_first_render = true at most once; it has been
\* exactly when the first event received was a tick, and never when the first
\* event was a key or a mouse event.  At the top of an iteration the flag is
\* set only as long as no event has been received.
C19_FirstRenderOnce ==
  /\ firstRenderCalls <= 1
  /\ firstRenderCalls = 1 <=> firstEvent = "Tick"
  /\ firstEvent \in {"Input", "MouseInput"} => firstRenderCalls = 0
  /\ (is_first_render /\ uiPc \in {"loop_top", "await_event"}) =>
        firstEvent = "none"

\* the first event was a tick and a second tick has followed: one call had the
\* flag set, the other had not
C19_Witness ==
  /\ firstEvent = "Tick"
  /\ app.tick_count = 2
  /\ firstRenderCalls = 1
  /\ ~is_first_render

====
